---- MODULE Spec2Model ----
(***************************************************************************)
(* conjugate.ts: the composite built by Conjugate(Base, ...Mixins).        *)
(*                                                                         *)
(* The state is what the Conjugated constructor closes over: the proxy     *)
(* target `self`, one instance per composed class, and the (externally     *)
(* mutable) prototypes of the composed classes.  The constructor and the   *)
(* proxy traps has, get, set and ownKeys are modelled for the three        *)
(* variants the sources contain:                                           *)
(*   "inline"  - traps written inline, base and mixins separate            *)
(*   "classes" - resolveProperty over one Classes array                    *)
(*   "resolve" - resolveProperty, base and mixins separate                 *)
(***************************************************************************)
EXTENDS Integers, Sequences, FiniteSets, TLC

\* ------------------------------------------------------------------ bounds

\* Number of mixin classes supplied after the base class.
NumMixins == 2

NumClasses == NumMixins + 1

\* The longest constructor-argument tuple a caller passes for one class.
MaxArgs == 2

\* The most function objects value.bind makes in one scenario that tells
\* them apart.
MaxBinds == 2

\* Class 1 is Base; classes 2..NumClasses are the mixins in supplied order.
Classes == 1..NumClasses

Variants == {"inline", "classes", "resolve"}

\* The keys of the method resolution scenarios.  "toString" is also a member
\* of Object.prototype, which ends the prototype chain of every class
\* prototype.
CoreKeys == {"who", "toString"}

\* The canonical string forms of the numbers callers use as keys.
IndexKeys == {"1"}

\* The methods of the host class EventTarget.
HostKeys == {"addEventListener"}

\* Property keys: the above, a second instance field, the method who() calls
\* on this, the index keys and the host methods.
Keys == CoreKeys \cup {"foo", "where"} \cup IndexKeys \cup HostKeys

\* Keys the classes declare as instance fields and the caller writes.
FieldKeys == {"who"}

\* The names the classes of the enumeration and call scenarios declare as
\* instance fields.
EnumKeys == {"who", "foo"}

\* Keys the environment adds to and deletes from class c's prototype: who on
\* every class; an override of the inherited toString on the base and on the
\* last mixin.
PatchedKeys(c) == IF c = 1 \/ c = NumClasses THEN CoreKeys ELSE {"who"}

\* ------------------------------------------------------------------ values

Absent == [kind |-> "absent", id |-> 0]
Undefined == [kind |-> "undefined", id |-> 0]
Data(i) == [kind |-> "data", id |-> i]
Fn(i) == [kind |-> "function", id |-> i]
BoundFn(i) == [kind |-> "bound", id |-> i]

\* An arrow function (its this is that of the place it was written in), and
\* what bind makes of it.
ArrowFn(i) == [kind |-> "arrow", id |-> i]
BoundArrow(i) == [kind |-> "boundArrow", id |-> i]

\* A host method that checks its receiver: it runs only on a genuine instance
\* of the class i that extends the host class.  bind makes a new function of
\* it like of any other.
HostFn(i) == [kind |-> "host", id |-> i]
BoundHost(i) == [kind |-> "boundHost", id |-> i]

\* Object.prototype.toString
NativeFn == Fn(0 - 1)

\* Values the caller writes through the composite: a fresh datum, a
\* function, and undefined.
Written == {Data(NumClasses + 1), Fn(NumClasses + 1), Undefined}

\* Object references.
SelfRef == [at |-> "self", idx |-> 0]
ProxyRef == [at |-> "proxy", idx |-> 0]
InstRef(i) == [at |-> "instance", idx |-> i]
ProtoRef(i) == [at |-> "prototype", idx |-> i]
NoRef == [at |-> "none", idx |-> 0]

\* The prototype of the subclass of the composite class (self's own prototype).
SubProtoRef == [at |-> "subPrototype", idx |-> 0]

EmptyObject == [k \in Keys |-> Absent]

\* The own keys of an object in the order Reflect.ownKeys lists them (string
\* keys in creation order): ks without the keys obj does not own.
RECURSIVE KeysIn(_, _)
KeysIn(obj, ks) ==
    IF ks = <<>> THEN <<>>
    ELSE IF obj[Head(ks)] # Absent THEN <<Head(ks)>> \o KeysIn(obj, Tail(ks))
    ELSE KeysIn(obj, Tail(ks))

\* The order in which a class body declares its members.
DeclaredOrder == <<"who", "foo", "where", "toString">>

VARIABLES
    variant,    \* which of the three sources of Conjugate built the composite
    phase,      \* "declared", "live" (constructed) or "failed" (constructor threw)
    fields,     \* the instance fields each composed class declares
    subFields,  \* the fields the subclass of the composite class declares
    subProto,   \* the prototype of the subclass of the composite class
    proto,      \* the prototypes of the composed classes
    self,       \* the proxy target
    selfKeys,   \* the own keys of self in creation order
    inst,       \* the instance of each composed class
    ctor,       \* the constructors' behaviour and the record of the construction
    outer,      \* a further composite that has this composite class as a component
    twin,       \* the objects of two composites built from one composite class
    binds,      \* how many bound functions the get trap has made
    op          \* the last operation and what it returned

vars == <<variant, phase, fields, subFields, subProto, proto, self, selfKeys, inst,
          ctor, outer, twin, binds, op>>

\* What no operation on a constructed composite changes: the class
\* declarations and the record of the construction.
declared == <<variant, fields, subFields, subProto, ctor>>

\* ------------------------------------------------------------------ host object model

\* obj.hasOwnProperty(k)
HasOwn(obj, k) == obj[k] # Absent

\* Own members of Object.prototype.
ObjectPrototype(k) == IF k = "toString" THEN NativeFn ELSE Absent

\* Membership as the class bodies declared it (every class declares who()),
\* the answer of a table flattened when the composite was built.
ProtoHasDeclared(pr, c, k) == k = "who" \/ ObjectPrototype(k) # Absent

\* ConjugateBase.has(Cls.prototype, k): Reflect.has walks the prototype chain,
\* Cls.prototype then Object.prototype.
ProtoHas(pr, c, k) == HasOwn(pr[c], k) \/ ObjectPrototype(k) # Absent

\* ConjugateBase.get(Cls.prototype, k, receiver): Reflect.get along the same
\* chain (data members only).
ProtoGet(pr, c, k) ==
    IF HasOwn(pr[c], k) THEN pr[c][k]
    ELSE IF ObjectPrototype(k) # Absent THEN ObjectPrototype(k)
    ELSE Undefined

\* ConjugateBase.get(obj, k, receiver) on an instance that has k as its own
\* data property.
OwnGet(obj, k) == obj[k]

\* ConjugateBase.bounded(value, instance): a function is replaced by
\* value.bind(instance), a new function object; anything else is returned as is.
Bounded(value) ==
    IF value.kind = "function" THEN BoundFn(value.id)
    ELSE IF value.kind = "arrow" THEN BoundArrow(value.id)
    ELSE IF value.kind = "host" THEN BoundHost(value.id)
    ELSE value

BoundThis(value, instance) ==
    IF value.kind \in {"function", "arrow", "host"} THEN instance ELSE NoRef

\* ------------------------------------------------------------------ resolution walks

\* A resolution result: where the key was found, the value handed back, and
\* the `this` a returned function was bound to.
Hit(src, value, instance) ==
    [found |-> TRUE, threw |-> FALSE, src |-> src, value |-> Bounded(value),
     thisArg |-> BoundThis(value, instance)]

\* A not-found branch that raises instead of returning.
MissThrows ==
    [found |-> FALSE, threw |-> TRUE, src |-> NoRef, value |-> Undefined, thisArg |-> NoRef]

\* return undefined: the not-found branch of the get trap.
Miss ==
    [found |-> FALSE, threw |-> FALSE, src |-> NoRef, value |-> Undefined, thisArg |-> NoRef]

\* The instance walk run first-supplied to last-supplied.
RECURSIVE AscendingInstanceWalk(_, _, _, _)
AscendingInstanceWalk(in, j, hi, k) ==
    IF j > hi THEN 0
    ELSE IF HasOwn(in[j], k) THEN j
    ELSE AscendingInstanceWalk(in, j + 1, hi, k)

ForwardInstanceWalk(in, i, lo, k) == AscendingInstanceWalk(in, lo, i, k)

\* The prototype walk run last-supplied to first-supplied.
RECURSIVE DescendingPrototypeWalk(_, _, _, _)
DescendingPrototypeWalk(pr, j, lo, k) ==
    IF j < lo THEN 0
    ELSE IF pr[j][k] # Absent \/ ObjectPrototype(k) # Absent THEN j
    ELSE DescendingPrototypeWalk(pr, j - 1, lo, k)

ReversePrototypeWalk(pr, i, k) == DescendingPrototypeWalk(pr, NumClasses, i, k)

\* for (let i = instances.length - 1; i >= 0; i -= 1) if (inst.hasOwnProperty(prop)) ...
\* over the instances of classes i, i-1, .., lo: the first class whose instance
\* owns k, or 0.
RECURSIVE ReverseInstanceWalk(_, _, _, _)
ReverseInstanceWalk(in, i, lo, k) ==
    IF i < lo THEN 0
    ELSE IF HasOwn(in[i], k) THEN i
    ELSE ReverseInstanceWalk(in, i - 1, lo, k)

\* for (let i = 0; i < Mixins.length; i += 1) if (ConjugateBase.has(Mixin.prototype, prop)) ...
\* over the prototypes of classes i, i+1, .., NumClasses: the first class whose
\* prototype has k, or 0.
RECURSIVE ForwardPrototypeWalk(_, _, _)
ForwardPrototypeWalk(pr, i, k) ==
    IF i > NumClasses THEN 0
    ELSE IF ProtoHas(pr, i, k) THEN i
    ELSE ForwardPrototypeWalk(pr, i + 1, k)

\* The inline get trap with the base instance consulted before the mixin
\* instances.
GetInlineBaseFirst(s, in, pr, k) ==
    IF HasOwn(s, k) THEN Hit(SelfRef, OwnGet(s, k), ProxyRef)
    ELSE IF HasOwn(in[1], k) THEN Hit(InstRef(1), OwnGet(in[1], k), ProxyRef)
    ELSE LET m == ReverseInstanceWalk(in, NumClasses, 2, k) IN
         IF m # 0 THEN Hit(InstRef(m), OwnGet(in[m], k), ProxyRef)
         ELSE LET p == ForwardPrototypeWalk(pr, 1, k) IN
              IF p # 0 THEN Hit(ProtoRef(p), ProtoGet(pr, p, k), ProxyRef)
              ELSE Miss

\* The inline get trap with self consulted after the component instances.
GetInlineSelfLast(s, in, pr, k) ==
    LET m == ReverseInstanceWalk(in, NumClasses, 1, k) IN
    IF m # 0 THEN Hit(InstRef(m), OwnGet(in[m], k), ProxyRef)
    ELSE IF HasOwn(s, k) THEN Hit(SelfRef, OwnGet(s, k), ProxyRef)
    ELSE LET p == ForwardPrototypeWalk(pr, 1, k) IN
         IF p # 0 THEN Hit(ProtoRef(p), ProtoGet(pr, p, k), ProxyRef)
         ELSE Miss

\* The get trap written inline (base and mixins held separately).
GetInline(s, in, pr, k) ==
    IF HasOwn(s, k) THEN Hit(SelfRef, OwnGet(s, k), ProxyRef)
    ELSE LET m == ReverseInstanceWalk(in, NumClasses, 2, k) IN
         IF m # 0 THEN Hit(InstRef(m), OwnGet(in[m], k), ProxyRef)
         ELSE IF HasOwn(in[1], k) THEN Hit(InstRef(1), OwnGet(in[1], k), ProxyRef)
         ELSE IF ProtoHas(pr, 1, k) THEN Hit(ProtoRef(1), ProtoGet(pr, 1, k), ProxyRef)
         ELSE LET p == ForwardPrototypeWalk(pr, 2, k) IN
              IF p # 0 THEN Hit(ProtoRef(p), ProtoGet(pr, p, k), ProxyRef)
              ELSE Miss

\* resolveProperty over the Classes array with the prototypes consulted before
\* the component instances.
GetClassesPrototypeFirst(s, in, pr, k) ==
    IF HasOwn(s, k) THEN Hit(SelfRef, OwnGet(s, k), ProxyRef)
    ELSE LET p == ForwardPrototypeWalk(pr, 1, k) IN
         IF p # 0 THEN Hit(ProtoRef(p), ProtoGet(pr, p, k), InstRef(p))
         ELSE LET m == ReverseInstanceWalk(in, NumClasses, 1, k) IN
              IF m # 0 THEN Hit(InstRef(m), OwnGet(in[m], k), ProxyRef)
              ELSE Miss

\* resolveProperty(OpType.Get, ...) over one Classes array: a prototype member
\* is bound to the instance of the class it was found on.
GetClasses(s, in, pr, k) ==
    IF HasOwn(s, k) THEN Hit(SelfRef, OwnGet(s, k), ProxyRef)
    ELSE LET m == ReverseInstanceWalk(in, NumClasses, 1, k) IN
         IF m # 0 THEN Hit(InstRef(m), OwnGet(in[m], k), ProxyRef)
         ELSE LET p == ForwardPrototypeWalk(pr, 1, k) IN
              IF p # 0 THEN Hit(ProtoRef(p), ProtoGet(pr, p, k), InstRef(p))
              ELSE Miss

\* resolveProperty with the mixin instances walked first-supplied to
\* last-supplied.
GetResolveForward(s, in, pr, k) ==
    IF HasOwn(s, k) THEN Hit(SelfRef, OwnGet(s, k), ProxyRef)
    ELSE LET m == ForwardInstanceWalk(in, NumClasses, 2, k) IN
         IF m # 0 THEN Hit(InstRef(m), OwnGet(in[m], k), ProxyRef)
         ELSE IF HasOwn(in[1], k) THEN Hit(InstRef(1), OwnGet(in[1], k), ProxyRef)
         ELSE LET p == ForwardPrototypeWalk(pr, 1, k) IN
              IF p # 0 THEN Hit(ProtoRef(p), ProtoGet(pr, p, k), ProxyRef)
              ELSE Miss

\* resolveProperty with step 5, the mixin prototypes, taken before step 4,
\* Base.prototype.
GetResolveMixinPrototypesFirst(s, in, pr, k) ==
    IF HasOwn(s, k) THEN Hit(SelfRef, OwnGet(s, k), ProxyRef)
    ELSE LET m == ReverseInstanceWalk(in, NumClasses, 2, k) IN
         IF m # 0 THEN Hit(InstRef(m), OwnGet(in[m], k), ProxyRef)
         ELSE IF HasOwn(in[1], k) THEN Hit(InstRef(1), OwnGet(in[1], k), ProxyRef)
         ELSE LET p == ForwardPrototypeWalk(pr, 2, k) IN
              IF p # 0 THEN Hit(ProtoRef(p), ProtoGet(pr, p, k), ProxyRef)
              ELSE IF ProtoHas(pr, 1, k) THEN Hit(ProtoRef(1), ProtoGet(pr, 1, k), ProxyRef)
              ELSE Miss

\* resolveProperty(OpType.Get, ...) with base and mixins held separately.
GetResolve(s, in, pr, k) ==
    IF HasOwn(s, k) THEN Hit(SelfRef, OwnGet(s, k), ProxyRef)
    ELSE LET m == ReverseInstanceWalk(in, NumClasses, 2, k) IN
         IF m # 0 THEN Hit(InstRef(m), OwnGet(in[m], k), ProxyRef)
         ELSE IF HasOwn(in[1], k) THEN Hit(InstRef(1), OwnGet(in[1], k), ProxyRef)
         ELSE IF ProtoHas(pr, 1, k) THEN Hit(ProtoRef(1), ProtoGet(pr, 1, k), ProxyRef)
         ELSE LET p == ForwardPrototypeWalk(pr, 2, k) IN
              IF p # 0 THEN Hit(ProtoRef(p), ProtoGet(pr, p, k), ProxyRef)
              ELSE Miss

\* The proxy's get trap of variant v.
ProxyGet(v, s, in, pr, k) ==
    CASE v = "inline" -> GetInline(s, in, pr, k)
      [] v = "classes" -> GetClasses(s, in, pr, k)
      [] v = "resolve" -> GetResolve(s, in, pr, k)

\* ------------------------------------------------------------------ existence check

\* The inline has trap with the two prototype steps left out.
HasInlineInstancesOnly(s, in, pr, k) ==
    \/ HasOwn(s, k)
    \/ ReverseInstanceWalk(in, NumClasses, 2, k) # 0
    \/ HasOwn(in[1], k)

\* The has trap written inline: self, the mixin instances in reverse, the base
\* instance (own properties), then Base.prototype and the mixin prototypes
\* (Reflect.has).
HasInline(s, in, pr, k) ==
    \/ HasOwn(s, k)
    \/ ReverseInstanceWalk(in, NumClasses, 2, k) # 0
    \/ HasOwn(in[1], k)
    \/ ProtoHas(pr, 1, k)
    \/ ForwardPrototypeWalk(pr, 2, k) # 0

\* resolveProperty(OpType.Has, ...) with the prototypes asked for own members
\* only.
HasClassesOwnMembers(s, in, pr, k) ==
    \/ HasOwn(s, k)
    \/ ReverseInstanceWalk(in, NumClasses, 1, k) # 0
    \/ \E c \in Classes : HasOwn(pr[c], k)

\* resolveProperty(OpType.Has, ...) over one Classes array.
HasClasses(s, in, pr, k) ==
    \/ HasOwn(s, k)
    \/ ReverseInstanceWalk(in, NumClasses, 1, k) # 0
    \/ ForwardPrototypeWalk(pr, 1, k) # 0

\* resolveProperty(OpType.Has, ...) with base and mixins held separately.
HasResolve(s, in, pr, k) ==
    \/ HasOwn(s, k)
    \/ ReverseInstanceWalk(in, NumClasses, 2, k) # 0
    \/ HasOwn(in[1], k)
    \/ ProtoHas(pr, 1, k)
    \/ ForwardPrototypeWalk(pr, 2, k) # 0

\* The source at which the has trap's walk returns true (the same steps in
\* the three variants), none when it returns false.
HasSource(s, in, pr, k) ==
    IF HasOwn(s, k) THEN SelfRef
    ELSE LET m == ReverseInstanceWalk(in, NumClasses, 2, k) IN
         IF m # 0 THEN InstRef(m)
         ELSE IF HasOwn(in[1], k) THEN InstRef(1)
         ELSE IF ProtoHas(pr, 1, k) THEN ProtoRef(1)
         ELSE LET p == ForwardPrototypeWalk(pr, 2, k) IN
              IF p # 0 THEN ProtoRef(p) ELSE NoRef

\* The proxy's has trap of variant v.
ProxyHas(v, s, in, pr, k) ==
    CASE v = "inline" -> HasInline(s, in, pr, k)
      [] v = "classes" -> HasClasses(s, in, pr, k)
      [] v = "resolve" -> HasResolve(s, in, pr, k)

\* ------------------------------------------------------------------ key enumeration

\* keys.add(k) for each k of ks, in order: a Set keeps the first insertion.
RECURSIVE AddAll(_, _)
AddAll(keys, ks) ==
    IF ks = <<>> THEN keys
    ELSE IF \E i \in DOMAIN keys : keys[i] = Head(ks) THEN AddAll(keys, Tail(ks))
    ELSE AddAll(Append(keys, Head(ks)), Tail(ks))

\* ConjugateBase.ownKeys(instance) = Reflect.ownKeys(instance): the fields in
\* the order the class body declared them.
InstanceOwnKeys(obj) == KeysIn(obj, DeclaredOrder)

\* The enumeration loop run over the instances of classes lo, .., i in
\* supplied order.
RECURSIVE AscendingKeysWalk(_, _, _, _)
AscendingKeysWalk(keys, in, j, hi) ==
    IF j > hi THEN keys
    ELSE AscendingKeysWalk(AddAll(keys, InstanceOwnKeys(in[j])), in, j + 1, hi)

ForwardKeysWalk(keys, in, i, lo) == AscendingKeysWalk(keys, in, lo, i)

\* for (let i = mixins.length - 1; i >= 0; i -= 1)
\*     ConjugateBase.ownKeys(mixins[i]).forEach(k => keys.add(k));
\* over the instances of classes i, i-1, .., lo.
RECURSIVE ReverseKeysWalk(_, _, _, _)
ReverseKeysWalk(keys, in, i, lo) ==
    IF i < lo THEN keys
    ELSE ReverseKeysWalk(AddAll(keys, InstanceOwnKeys(in[i])), in, i - 1, lo)

\* The ownKeys trap written inline and in resolveProperty's file: self, the
\* mixin instances in reverse, the base instance.  sk is Reflect.ownKeys(self).
OwnKeysInline(sk, in, pr) ==
    AddAll(ReverseKeysWalk(AddAll(<<>>, sk), in, NumClasses, 2), InstanceOwnKeys(in[1]))

\* The ownKeys trap over one Classes array: self, all instances in reverse.
OwnKeysClasses(sk, in, pr) == ReverseKeysWalk(AddAll(<<>>, sk), in, NumClasses, 1)

\* The proxy's ownKeys trap of variant v.
ProxyOwnKeys(v, sk, in, pr) ==
    IF v = "classes" THEN OwnKeysClasses(sk, in, pr) ELSE OwnKeysInline(sk, in, pr)

\* ------------------------------------------------------------------ writes

\* A define on the proxy redirected to the base instance.
DefineTargetBase(receiver) == IF receiver = ProxyRef THEN InstRef(1) ELSE receiver

\* The object a [[DefineOwnProperty]] on `receiver` lands on: the proxy handler
\* has no defineProperty trap, so the proxy forwards to its target, self.
DefineTarget(receiver) == IF receiver = ProxyRef THEN SelfRef ELSE receiver

\* A set that reports success and stores nothing.
ReflectSetIgnored(s, in, target, k, v, receiver) ==
    [ok |-> TRUE, self |-> s, inst |-> in]

\* ConjugateBase.set(target, k, v, receiver) = Reflect.set(target, k, v, receiver).
\* Every member is a writable data property, so OrdinarySet finds a data
\* descriptor (target's own, inherited, or the default one) and then creates
\* or redefines k on the receiver, not on target.
ReflectSet(s, in, target, k, v, receiver) ==
    LET dest == DefineTarget(receiver) IN
    IF dest = SelfRef
    THEN [ok |-> TRUE, self |-> [s EXCEPT ![k] = v], inst |-> in]
    ELSE [ok |-> TRUE, self |-> s, inst |-> [in EXCEPT ![dest.idx][k] = v]]

\* The owner the set trap finds for k when base and mixins are held
\* separately: self, the mixin instances in reverse, the base instance; none
\* when no instance owns k (prototypes are never written).
SetOwner(s, in, k) ==
    IF HasOwn(s, k) THEN SelfRef
    ELSE LET m == ReverseInstanceWalk(in, NumClasses, 2, k) IN
         IF m # 0 THEN InstRef(m)
         ELSE IF HasOwn(in[1], k) THEN InstRef(1)
         ELSE NoRef

\* The owner found over one Classes array: self, all instances in reverse.
SetOwnerClasses(s, in, k) ==
    IF HasOwn(s, k) THEN SelfRef
    ELSE LET m == ReverseInstanceWalk(in, NumClasses, 1, k) IN
         IF m # 0 THEN InstRef(m) ELSE NoRef

\* The object handed to ConjugateBase.set: the owner found, and self in the
\* not-found branch.
SetTarget(owner) == IF owner = NoRef THEN SelfRef ELSE owner

\* What a set trap hands back: whether it threw, the owner its walk found, the
\* boolean it returned, and the storage it leaves.
SetResult(threw, owner, r, pr) ==
    [threw |-> threw, owner |-> owner, ok |-> r.ok, self |-> r.self, inst |-> r.inst,
     proto |-> pr]

\* throw new TypeError('Value must be provided for set operation.')
SetRejected(s, in, pr) ==
    SetResult(TRUE, NoRef, [ok |-> FALSE, self |-> s, inst |-> in], pr)

\* The inline set trap with the third choice of its not-found comment taken:
\* a key that only a prototype has is set on the first prototype that has it
\* as its own member.
SetInlineOnPrototype(s, in, pr, k, v, receiver) ==
    LET owner == SetOwner(s, in, k)
        holders == {c \in Classes : HasOwn(pr[c], k)}
        first == CHOOSE c \in holders : \A d \in holders : c <= d
    IN  IF owner = NoRef /\ holders # {}
        THEN SetResult(FALSE, owner, [ok |-> TRUE, self |-> s, inst |-> in],
                       [pr EXCEPT ![first][k] = v])
        ELSE SetResult(FALSE, owner, ReflectSet(s, in, SetTarget(owner), k, v, receiver), pr)

\* The set trap written inline.  No branch hands a prototype to
\* ConjugateBase.set.
SetInline(s, in, pr, k, v, receiver) ==
    LET owner == SetOwner(s, in, k) IN
    SetResult(FALSE, owner, ReflectSet(s, in, SetTarget(owner), k, v, receiver), pr)

\* resolveProperty(OpType.Set, ...) over one Classes array: a write of
\* undefined throws before the walk.
SetClasses(s, in, pr, k, v, receiver) ==
    IF v = Undefined THEN SetRejected(s, in, pr)
    ELSE LET owner == SetOwnerClasses(s, in, k) IN
         SetResult(FALSE, owner, ReflectSet(s, in, SetTarget(owner), k, v, receiver), pr)

\* resolveProperty(OpType.Set, ...) without the check of the value.
SetResolveUnchecked(s, in, pr, k, v, receiver) ==
    LET owner == SetOwner(s, in, k) IN
    SetResult(FALSE, owner, ReflectSet(s, in, SetTarget(owner), k, v, receiver), pr)

\* resolveProperty(OpType.Set, ...) with base and mixins held separately.
SetResolve(s, in, pr, k, v, receiver) ==
    IF v = Undefined THEN SetRejected(s, in, pr)
    ELSE LET owner == SetOwner(s, in, k) IN
         SetResult(FALSE, owner, ReflectSet(s, in, SetTarget(owner), k, v, receiver), pr)

\* The proxy's set trap of variant v.
ProxySet(v, s, in, pr, k, val, receiver) ==
    CASE v = "inline" -> SetInline(s, in, pr, k, val, receiver)
      [] v = "classes" -> SetClasses(s, in, pr, k, val, receiver)
      [] v = "resolve" -> SetResolve(s, in, pr, k, val, receiver)

\* ------------------------------------------------------------------ the program

\* Constructors that take no arguments and do not throw, and no record of a
\* construction.
NoCtor == [throwers |-> {}, args |-> <<>>, log |-> <<>>, error |-> 0]

\* The composite class is not a component of a further composite.
NoOuter == [pos |-> 0, self |-> EmptyObject, other |-> EmptyObject]

\* No composite in the two-composite scenario: an empty heap.
NoTwin == [heap |-> <<>>, comp |-> <<>>, last |-> 0]

\* The record of the last operation: what was asked and what came back.
OpRecord(kind, k, v, threw, r) ==
    [kind |-> kind, key |-> k, val |-> v, threw |-> threw,
     found |-> r.found, src |-> r.src, value |-> r.value, thisArg |-> r.thisArg,
     keys |-> <<>>, nested |-> NoRef, rawType |-> "string", serial |-> 0]

NoOp(kind) == OpRecord(kind, "", Undefined, FALSE, Miss)

\* The value class c's field initialiser gives a field (class 0 is the
\* subclass of the composite class).
FieldInit(c) == Data(c)

\* The method class c declares on its prototype.
Method(c) == Fn(c)

\* Class declarations: every composed class declares the method who() and
\* any subset of the instance fields; a subclass of the composite class may
\* declare a field (a datum or an arrow function) of its own.
Init ==
    /\ variant \in Variants
    /\ phase = "declared"
    /\ fields \in [Classes -> SUBSET FieldKeys]
    /\ subFields \in {f \in [Keys -> {Absent, FieldInit(0), Fn(NumClasses + 2)}] :
                        \A k \in Keys \ FieldKeys : f[k] = Absent}
    /\ subProto = EmptyObject
    /\ proto = [c \in Classes |-> [k \in Keys |-> IF k = "who" THEN Method(c) ELSE Absent]]
    /\ self = EmptyObject
    /\ selfKeys = <<>>
    /\ inst = [c \in Classes |-> EmptyObject]
    /\ ctor = NoCtor
    /\ outer = NoOuter
    /\ twin = NoTwin
    /\ binds = 0
    /\ op = NoOp("declare")

\* new Sub(argsBase, ...argsMixins): the Conjugated constructor constructs one
\* instance per class and returns the proxy over self; the subclass's field
\* initialisers then define their fields on the returned proxy, which has no
\* defineProperty trap, so they land on self.
Construct ==
    /\ phase = "declared"
    /\ phase' = "live"
    /\ inst' = [c \in Classes |->
                  [k \in Keys |-> IF k \in fields[c] THEN FieldInit(c) ELSE Absent]]
    /\ self' = subFields
    /\ selfKeys' = KeysIn(subFields, DeclaredOrder)
    /\ op' = NoOp("construct")
    /\ UNCHANGED <<declared, proto, outer, twin, binds>>

\* Cls.prototype.k = function () { ... }, by code outside the engine, after the
\* composite was constructed.
ProtoDefine(c, k) ==
    /\ phase = "live"
    /\ proto[c][k] = Absent
    /\ proto' = [proto EXCEPT ![c][k] = Method(c)]
    /\ op' = NoOp("protoDefine")
    /\ UNCHANGED <<declared, phase, self, selfKeys, inst, outer, twin, binds>>

\* delete Cls.prototype.k, by code outside the engine, after the composite was
\* constructed.
ProtoDelete(c, k) ==
    /\ phase = "live"
    /\ proto[c][k] # Absent
    /\ proto' = [proto EXCEPT ![c][k] = Absent]
    /\ op' = NoOp("protoDelete")
    /\ UNCHANGED <<declared, phase, self, selfKeys, inst, outer, twin, binds>>

\* instance.k, read through the composite.
Get(k) ==
    /\ phase = "live"
    /\ LET r == ProxyGet(variant, self, inst, proto, k) IN
       op' = OpRecord("get", k, Undefined, r.threw, r)
    /\ UNCHANGED <<declared, phase, proto, self, selfKeys, inst, outer, twin, binds>>

\* k in instance, asked of the composite.
Has(k) ==
    /\ phase = "live"
    /\ op' = [NoOp("has") EXCEPT !.key = k,
                                 !.found = ProxyHas(variant, self, inst, proto, k)]
    /\ UNCHANGED <<declared, phase, proto, self, selfKeys, inst, outer, twin, binds>>

\* Reflect.ownKeys(instance), asked of the composite.
OwnKeys ==
    /\ phase = "live"
    /\ op' = [NoOp("ownKeys") EXCEPT !.keys = ProxyOwnKeys(variant, selfKeys, inst, proto)]
    /\ UNCHANGED <<declared, phase, proto, self, selfKeys, inst, outer, twin, binds>>

\* Reflect.ownKeys(self) after a step that created k on self (created) or did
\* not: index keys are listed before the string keys, which keep their
\* creation order.
KeyAdded(sk, k, created) ==
    IF ~created THEN sk
    ELSE IF k \in IndexKeys THEN <<k>> \o sk
    ELSE Append(sk, k)

\* instance.k = v, written through the composite (the receiver is the proxy).
\* The record keeps the owner the trap's walk found (none in the not-found
\* branch) and the boolean the trap returned.  A key the write creates on self
\* is the last of self's own keys.
Set(k, v) ==
    /\ phase = "live"
    /\ LET r == ProxySet(variant, self, inst, proto, k, v, ProxyRef) IN
       /\ self' = r.self
       /\ selfKeys' = KeyAdded(selfKeys, k, HasOwn(r.self, k) /\ ~HasOwn(self, k))
       /\ inst' = r.inst
       /\ proto' = r.proto
       /\ op' = [NoOp("set") EXCEPT !.key = k, !.val = v, !.threw = r.threw,
                                    !.found = r.ok, !.src = r.owner]
    /\ UNCHANGED <<declared, phase, outer, twin, binds>>

Next ==
    \/ Construct
    \/ \E c \in Classes : \E k \in PatchedKeys(c) : ProtoDefine(c, k)
    \/ \E c \in Classes : \E k \in PatchedKeys(c) : ProtoDelete(c, k)
    \/ \E k \in CoreKeys : Get(k)
    \/ \E k \in FieldKeys, v \in Written : Set(k, v)

Spec == Init /\ [][Next]_vars

\* ------------------------------------------------------------------ the four traps

\* The keys asked of the composite: a declared method, a member every
\* prototype inherits, and a name no composed class declares.
TrapKeys == {"who", "toString", "foo"}

\* The prototype of the subclass of the composite class: it declares
\* nothing, or a method who() named like a composed member and a method foo()
\* that only the subclass has.
SubPrototypes ==
    {EmptyObject, [k \in Keys |-> IF k \in {"who", "foo"} THEN Method(0) ELSE Absent]}

\* class Sub extends Conjugate(Base, ...Mixins) { ...fields; ...methods }
InitTraps ==
    /\ variant \in Variants
    /\ phase = "declared"
    /\ fields \in [Classes -> SUBSET FieldKeys]
    /\ subFields \in {f \in [Keys -> {Absent, FieldInit(0)}] :
                        \A k \in Keys \ FieldKeys : f[k] = Absent}
    /\ subProto \in SubPrototypes
    /\ proto = [c \in Classes |-> [k \in Keys |-> IF k = "who" THEN Method(c) ELSE Absent]]
    /\ self = EmptyObject
    /\ selfKeys = <<>>
    /\ inst = [c \in Classes |-> EmptyObject]
    /\ ctor = NoCtor
    /\ outer = NoOuter
    /\ twin = NoTwin
    /\ binds = 0
    /\ op = NoOp("declare")

NextTraps ==
    \/ Construct
    \/ \E c \in Classes : ProtoDefine(c, "who")
    \/ \E c \in Classes : ProtoDelete(c, "who")
    \/ \E k \in TrapKeys : Has(k)
    \/ \E k \in TrapKeys : Get(k)
    \/ \E k \in FieldKeys : Set(k, Data(NumClasses + 1))
    \/ OwnKeys

SpecTraps == InitTraps /\ [][NextTraps]_vars

\* ------------------------------------------------------------------ the resolution order, as stated

\* The sources in the stated order: the composite's own storage, the mixin
\* instances last-supplied to first-supplied, the base instance,
\* Base.prototype, the mixin prototypes first-supplied to last-supplied.
ResolutionOrder ==
    [i \in 1..(2 * NumClasses + 1) |->
        IF i = 1 THEN SelfRef
        ELSE IF i <= NumClasses + 1 THEN InstRef(NumClasses + 2 - i)
        ELSE ProtoRef(i - NumClasses - 1)]

\* Source ref has key k: as an own property for storage, by `in` for a
\* prototype.
SourceHolds(ref, k) ==
    CASE ref.at = "self" -> self[k] # Absent
      [] ref.at = "instance" -> inst[ref.idx][k] # Absent
      [] ref.at = "prototype" -> proto[ref.idx][k] # Absent \/ ObjectPrototype(k) # Absent
      [] OTHER -> FALSE

SourceValue(ref, k) ==
    CASE ref.at = "self" -> self[k]
      [] ref.at = "instance" -> inst[ref.idx][k]
      [] ref.at = "prototype" ->
            IF proto[ref.idx][k] # Absent THEN proto[ref.idx][k] ELSE ObjectPrototype(k)
      [] OTHER -> Undefined

\* A held value as a read hands it back: a function comes back bound.
AsReturned(v) == IF v.kind = "function" THEN BoundFn(v.id) ELSE v

Holders(k) == {i \in DOMAIN ResolutionOrder : SourceHolds(ResolutionOrder[i], k)}

FirstHolder(k) ==
    IF Holders(k) = {} THEN NoRef
    ELSE ResolutionOrder[CHOOSE i \in Holders(k) : \A j \in Holders(k) : i <= j]

\* Some instance storage (the composite's own or a component's) owns k.
OwnedByInstance(k) == self[k] # Absent \/ \E c \in Classes : inst[c][k] # Absent

\* ------------------------------------------------------------------ claims

ReadAfter(k) == ProxyGet(variant, self', inst', proto', k)

\* A step that adds member k to class c's prototype / removes it.
AddsMember(c, k) == phase = "live" /\ proto[c][k] = Absent /\ proto'[c][k] # Absent
DeletesMember(c, k) == phase = "live" /\ proto[c][k] # Absent /\ proto'[c][k] = Absent

\* No source has k once the step is done.
NowhereAfter(k) ==
    /\ ~OwnedByInstance(k)
    /\ \A d \in Classes : ~ProtoHas(proto', d, k)

\* A source before class c's prototype in the resolution order has k.
ShadowedBefore(c, k) ==
    \/ OwnedByInstance(k)
    \/ \E d \in Classes : d < c /\ ProtoHas(proto', d, k)

\* A read step hands back the value of the first holder among the live
\* objects and prototypes.
ReadsLive ==
    op'.kind = "get" =>
        op'.value = IF FirstHolder(op'.key) = NoRef THEN Undefined
                    ELSE AsReturned(SourceValue(FirstHolder(op'.key), op'.key))

\* C3 as stated: a member added to a prototype after construction is returned
\* by the next read of its key; a member deleted from a prototype and present
\* in no other source reads as undefined; no read returns a stale resolution.
C3_Original ==
    [][/\ \A c \in Classes, k \in Keys :
            /\ AddsMember(c, k) =>
                  ReadAfter(k).found /\ ReadAfter(k).value = AsReturned(proto'[c][k])
            /\ (DeletesMember(c, k) /\ NowhereAfter(k)) =>
                  ~ReadAfter(k).found /\ ReadAfter(k).value = Undefined
       /\ ReadsLive
      ]_vars

\* C3 (amended): the added member is returned by the next read of its key
\* unless a source earlier in the resolution order has the key, and then the
\* read is what it was before; a deleted member that no source has any more
\* reads as undefined; no read returns a stale resolution.
C3_AddedMemberReadUnlessShadowed ==
    [][/\ \A c \in Classes, k \in Keys :
            /\ (AddsMember(c, k) /\ ~ShadowedBefore(c, k)) =>
                  /\ ReadAfter(k).src = ProtoRef(c)
                  /\ ReadAfter(k).value = AsReturned(proto'[c][k])
            /\ (AddsMember(c, k) /\ ShadowedBefore(c, k)) =>
                  ReadAfter(k) = ProxyGet(variant, self, inst, proto, k)
            /\ (DeletesMember(c, k) /\ NowhereAfter(k)) =>
                  ~ReadAfter(k).found /\ ReadAfter(k).value = Undefined
       /\ ReadsLive
      ]_vars

\* toString(), which no class declared, was added to Base.prototype after
\* construction, and the read returned the added member.
C3_Witness ==
    /\ op.kind = "get"
    /\ op.key = "toString"
    /\ proto[1]["toString"] = Method(1)
    /\ op.src = ProtoRef(1)
    /\ op.value = BoundFn(1)

\* No instance owned the key of the last write before it.  A rejected write
\* leaves the storage as it was; an accepted one records the owner its walk
\* found.
NoOwnerExisted == IF op.threw THEN ~OwnedByInstance(op.key) ELSE op.src = NoRef

\* The read of k on the current state.
ReadNow(k) == ProxyGet(variant, self, inst, proto, k)

\* C4: a write of k found owned by a component instance stores the value in
\* that instance's own storage, and the source that resolves k afterwards is
\* that same instance.
C4_WriteLandsOnOwner ==
    (op.kind = "set" /\ ~op.threw /\ op.src.at = "instance") =>
        /\ inst[op.src.idx][op.key] = op.val
        /\ ReadNow(op.key).src = op.src

\* C5 as stated: a write of a key no source owns succeeds and creates the
\* field in the base instance's own storage.
C5_Original ==
    (op.kind = "set" /\ NoOwnerExisted) =>
        /\ ~op.threw
        /\ op.found
        /\ inst[1][op.key] = op.val

\* C5 (amended): a write of a key no source owns succeeds and creates the
\* field in the composite's own storage (the proxy target), leaving every
\* component instance without it; the resolveProperty variants reject the
\* value undefined with an error and store nothing.
C5_UnownedWriteLandsOnSelf ==
    (op.kind = "set" /\ NoOwnerExisted) =>
        IF variant # "inline" /\ op.val = Undefined
        THEN op.threw /\ self[op.key] = Absent
        ELSE /\ ~op.threw
             /\ op.found
             /\ self[op.key] = op.val
             /\ \A c \in Classes : inst[c][op.key] = Absent

\* A key that only prototypes had was written and now sits on self.
C5_Witness ==
    /\ op.kind = "set"
    /\ ~op.threw
    /\ op.src = NoRef
    /\ self[op.key] = op.val
    /\ \E c \in Classes : proto[c][op.key] # Absent

MixinHolders(k) == {m \in Classes : m > 1 /\ inst[m][k] # Absent}

LastOf(S) == CHOOSE m \in S : \A n \in S : n <= m

\* The scenario of C7: the primary (class 1) and exactly one auxiliary class
\* initialise field k, nothing shadows it on the composite's own storage, and
\* k is read.
PrimaryAndOneAux(k) ==
    /\ op.kind = "get"
    /\ op.key = k
    /\ self[k] = Absent
    /\ inst[1][k] = FieldInit(1)
    /\ Cardinality(MixinHolders(k)) = 1

C9_InstanceFieldsBeforePrototypes ==
    (op.kind = "get" /\ OwnedByInstance(op.key)) =>
        /\ op.found
        /\ op.src.at \in {"self", "instance"}
        /\ op.value = AsReturned(SourceValue(op.src, op.key))
        /\ \A c \in Classes :
              ProtoHas(proto, c, op.key) => op.value # AsReturned(ProtoGet(proto, c, op.key))

\* Only the base instance owns who while every prototype has who(); the read
\* returned the base instance's field.
C9_Witness ==
    /\ op.kind = "get"
    /\ op.key = "who"
    /\ self["who"] = Absent
    /\ MixinHolders("who") = {}
    /\ \A c \in Classes : proto[c]["who"] # Absent
    /\ op.src = InstRef(1)

\* C10: when the subclass of the composite class declares a field named like
\* a member of a composed class, a read through the subclass instance
\* resolves to the subclass's own field (as declared, or as last written).
C10_SubclassFieldShadows ==
    (op.kind = "get" /\ subFields[op.key] # Absent) =>
        /\ op.src = SelfRef
        /\ op.value = AsReturned(self[op.key])
        /\ self[op.key] = subFields[op.key] \/ self[op.key] \in Written

\* The subclass, every composed class's instance and every prototype have a
\* member who; the read returned the subclass's field.
C10_Witness ==
    /\ op.kind = "get"
    /\ op.key = "who"
    /\ subFields["who"] # Absent
    /\ self["who"] = subFields["who"]
    /\ \A c \in Classes : inst[c]["who"] # Absent /\ proto[c]["who"] # Absent
    /\ op.src = SelfRef

\* ------------------------------------------------------------------ method calls

\* where() { return 'Base' } of class c.
WhereMethod(c) == Fn(0 - 1 - c)

\* The function-valued field who of class c, written as an ordinary function
\* or as an arrow function; its body is  this.foo = v; return this.foo.
FieldFn(c) == Fn(100 + c)
FieldArrow(c) == ArrowFn(100 + c)

\* The value the body of a function-valued field writes to this.foo.
BodyWrite == Data(NumClasses + 1)

\* obj.k on a component instance outside the composite: the instance's own
\* property, else its class's prototype chain.
InstanceGet(in, pr, c, k) ==
    IF HasOwn(in[c], k) THEN [src |-> InstRef(c), value |-> in[c][k]]
    ELSE IF HasOwn(pr[c], k) THEN [src |-> ProtoRef(c), value |-> pr[c][k]]
    ELSE IF ObjectPrototype(k) # Absent THEN [src |-> NoRef, value |-> ObjectPrototype(k)]
    ELSE [src |-> NoRef, value |-> Undefined]

\* this.k where this is the composite (the proxy) or a component instance.
ThisGet(v, this, s, in, pr, k) ==
    IF this = ProxyRef
    THEN LET r == ProxyGet(v, s, in, pr, k) IN [src |-> r.src, value |-> r.value]
    ELSE InstanceGet(in, pr, this.idx, k)

\* this.k = val where this is the composite (the set trap) or a component
\* instance (a plain object: the property is created or updated on it).
ThisSet(v, this, s, in, pr, k, val) ==
    IF this = ProxyRef
    THEN ProxySet(v, s, in, pr, k, val, ProxyRef)
    ELSE SetResult(FALSE, this, [ok |-> TRUE, self |-> s,
                                 inst |-> [in EXCEPT ![this.idx][k] = val]], pr)

Callable(value) ==
    value.kind \in {"bound", "boundArrow", "boundHost", "function", "arrow", "host"}

\* The this a call of the function a read handed back runs with: what bind
\* fixed, except for an arrow function, which keeps the this of the field
\* initialiser that created it, the instance of its class.
CallThis(r) ==
    IF r.value.kind = "boundArrow" THEN InstRef(r.value.id - 100) ELSE r.thisArg

\* Classes that declare who() { return name + this.where() } and where(), and
\* any of the fields who (function-valued) and foo.
InitCall ==
    /\ variant \in Variants
    /\ phase = "declared"
    /\ fields \in [Classes -> SUBSET EnumKeys]
    /\ subFields = EmptyObject
    /\ subProto = EmptyObject
    /\ proto = [c \in Classes |->
                  [k \in Keys |-> IF k = "who" THEN Method(c)
                                   ELSE IF k = "where" THEN WhereMethod(c)
                                   ELSE Absent]]
    /\ self = EmptyObject
    /\ selfKeys = <<>>
    /\ inst = [c \in Classes |-> EmptyObject]
    /\ ctor = NoCtor
    /\ outer = NoOuter
    /\ twin = NoTwin
    /\ binds = 0
    /\ op = NoOp("declare")

\* new A([], ...): as Construct, for classes whose field who is function-valued
\* (all written as ordinary functions, or all as arrow functions).
ConstructCall ==
    /\ phase = "declared"
    /\ phase' = "live"
    /\ \E arrow \in BOOLEAN :
          inst' = [c \in Classes |->
                     [k \in Keys |->
                        IF k \notin fields[c] THEN Absent
                        ELSE IF k # "who" THEN FieldInit(c)
                        ELSE IF arrow THEN FieldArrow(c) ELSE FieldFn(c)]]
    /\ self' = subFields
    /\ selfKeys' = KeysIn(subFields, DeclaredOrder)
    /\ op' = NoOp("construct")
    /\ UNCHANGED <<declared, proto, outer, twin, binds>>

\* instance.k(): the read through the get trap, then the call of what it
\* returned.  The record keeps where the function was found, the this its body
\* ran with and, for who(), the source this.where resolved to; for a
\* function-valued field, what this.foo read after the body's write.
Call(k) ==
    /\ phase = "live"
    /\ LET r == ProxyGet(variant, self, inst, proto, k)
           this == CallThis(r)
           rec == [OpRecord("call", k, Undefined, FALSE, r) EXCEPT !.thisArg = this]
       IN  IF ~Callable(r.value)
           THEN \* TypeError: instance.k is not a function
                /\ op' = [rec EXCEPT !.threw = TRUE]
                /\ UNCHANGED <<self, selfKeys, inst, proto>>
           ELSE IF r.src.at = "prototype" /\ k = "who"
           THEN \* return name + this.where()
                LET w == ThisGet(variant, this, self, inst, proto, "where") IN
                /\ op' = [rec EXCEPT !.nested = w.src, !.threw = ~Callable(w.value)]
                /\ UNCHANGED <<self, selfKeys, inst, proto>>
           ELSE IF r.src.at = "instance"
           THEN \* this.foo = v; return this.foo
                LET w == ThisSet(variant, this, self, inst, proto, "foo", BodyWrite) IN
                /\ self' = w.self
                /\ selfKeys' = IF HasOwn(w.self, "foo") /\ ~HasOwn(self, "foo")
                               THEN Append(selfKeys, "foo") ELSE selfKeys
                /\ inst' = w.inst
                /\ proto' = w.proto
                /\ op' = [rec EXCEPT !.val = BodyWrite,
                             !.value = ThisGet(variant, this, w.self, w.inst, w.proto, "foo").value]
           ELSE \* where() { return name }
                /\ op' = rec
                /\ UNCHANGED <<self, selfKeys, inst, proto>>
    /\ UNCHANGED <<declared, phase, outer, twin, binds>>

NextCall ==
    \/ ConstructCall
    \/ \E c \in Classes : ProtoDelete(c, "who")
    \/ \E k \in {"who", "where"} : Call(k)

SpecCall == InitCall /\ [][NextCall]_vars

\* ------------------------------------------------------------------ construction with arguments

\* The j-th argument the caller passes for class c, and the tuples it may pass
\* for the classes: one tuple per class, each of its own length.
Arg(c, j) == Data(10 * c + j)
ArgTuple(c, n) == [j \in 1..n |-> Arg(c, j)]
ArgTuples == {[c \in Classes |-> ArgTuple(c, len[c])] : len \in [Classes -> 0..MaxArgs]}

\* The error the constructor of class c throws.
ErrorOf(c) == [kind |-> "error", id |-> c]

\* The tuple handed to class c with every class given the tuple before its own.
ArgsShifted(args, c) == IF c = 1 THEN args[1] ELSE args[c - 1]

\* The tuple handed to class c: argsBase for the base, argsMixins[index] for
\* the mixin at index (args[i] over the Classes array).
ArgsFor(args, c) == args[c]

\* constructor(value) { this.foo = value }: the fields a constructor called
\* with tuple a leaves on its instance.
Constructed(c, a) ==
    [EmptyObject EXCEPT !["foo"] = IF Len(a) >= 1 THEN a[1] ELSE Undefined]

\* The construction loop with a throwing constructor's error caught and the
\* loop carried on.
RECURSIVE ConstructSkipping(_, _, _, _)
ConstructSkipping(c, args, throwers, log) ==
    IF c > NumClasses THEN [log |-> log, error |-> 0]
    ELSE ConstructSkipping(c + 1, args, throwers,
                           Append(log, [cls |-> c, args |-> ArgsFor(args, c)]))

\* ConjugateBase.construct(Base, argsBase), then Mixins.map(... construct(Mixin,
\* argsMixins[index])): classes c, c+1, .. are constructed in order; a throw
\* leaves the loop and the constructor at once.  The log lists the
\* constructor calls made.
RECURSIVE ConstructFrom(_, _, _, _)
ConstructFrom(c, args, throwers, log) ==
    IF c > NumClasses THEN [log |-> log, error |-> 0]
    ELSE LET called == Append(log, [cls |-> c, args |-> ArgsFor(args, c)]) IN
         IF c \in throwers THEN [log |-> called, error |-> c]
         ELSE ConstructFrom(c + 1, args, throwers, called)

\* Classes whose constructors take arguments; any of them may throw.
InitCtor ==
    /\ variant \in Variants
    /\ phase = "declared"
    /\ fields = [c \in Classes |-> {}]
    /\ subFields = EmptyObject
    /\ subProto = EmptyObject
    /\ proto = [c \in Classes |-> [k \in Keys |-> IF k = "who" THEN Method(c) ELSE Absent]]
    /\ self = EmptyObject
    /\ selfKeys = <<>>
    /\ inst = [c \in Classes |-> EmptyObject]
    /\ ctor \in {[NoCtor EXCEPT !.throwers = t] : t \in SUBSET Classes}
    /\ outer = NoOuter
    /\ twin = NoTwin
    /\ binds = 0
    /\ op = NoOp("declare")

\* new A(a1, ..., an): the Conjugated constructor.  It either returns the
\* proxy over self with one instance per class, or leaves with the error a
\* component's constructor threw.
ConstructWith(args) ==
    /\ phase = "declared"
    /\ LET r == ConstructFrom(1, args, ctor.throwers, <<>>) IN
       /\ ctor' = [ctor EXCEPT !.args = args, !.log = r.log, !.error = r.error]
       /\ IF r.error = 0
          THEN /\ phase' = "live"
               /\ inst' = [c \in Classes |-> Constructed(c, r.log[c].args)]
               /\ op' = NoOp("construct")
          ELSE /\ phase' = "failed"
               /\ inst' = inst
               /\ op' = [NoOp("construct") EXCEPT !.threw = TRUE, !.value = ErrorOf(r.error)]
    /\ self' = EmptyObject
    /\ selfKeys' = <<>>
    /\ UNCHANGED <<variant, fields, subFields, subProto, proto, outer, twin, binds>>

NextCtor ==
    \/ \E args \in ArgTuples : ConstructWith(args)
    \/ \E k \in {"foo", "who"} : Get(k)

SpecCtor == InitCtor /\ [][NextCtor]_vars

\* ------------------------------------------------------------------ key enumeration scenarios

\* Each composed class declares any of the fields; the subclass of the
\* composite class declares none or the field who.
InitKeys ==
    /\ variant \in Variants
    /\ phase = "declared"
    /\ fields \in [Classes -> SUBSET EnumKeys]
    /\ subFields \in {EmptyObject, [EmptyObject EXCEPT !["who"] = FieldInit(0)]}
    /\ subProto = EmptyObject
    /\ proto = [c \in Classes |-> [k \in Keys |-> IF k = "who" THEN Method(c) ELSE Absent]]
    /\ self = EmptyObject
    /\ selfKeys = <<>>
    /\ inst = [c \in Classes |-> EmptyObject]
    /\ ctor = NoCtor
    /\ outer = NoOuter
    /\ twin = NoTwin
    /\ binds = 0
    /\ op = NoOp("declare")

NextKeys ==
    \/ Construct
    \/ \E k \in EnumKeys : Set(k, Data(NumClasses + 1))
    \/ OwnKeys

SpecKeys == InitKeys /\ [][NextKeys]_vars

\* ------------------------------------------------------------------ a composite class as a component

\* Outer = Conjugate(Inner, X) (the inner composite class is the base, pos 1)
\* or Conjugate(X, Inner) (it is the mixin, pos 2), where Inner is the
\* composite class of the composed classes and X is a class with one field.
\* The outer constructor constructs Inner, which returns the inner proxy, and
\* X; the outer traps then walk the outer self, these two instances, and the
\* prototypes Inner.prototype and X.prototype.
OuterSelfRef == [at |-> "outerSelf", idx |-> 0]
InnerRef == [at |-> "innerProxy", idx |-> 0]
OtherRef == [at |-> "other", idx |-> 0]
InnerProtoRef == [at |-> "innerPrototype", idx |-> 0]
OtherProtoRef == [at |-> "otherPrototype", idx |-> 0]

\* new X(): class X { foo = ... } with no methods.
OtherInstance == [EmptyObject EXCEPT !["foo"] = Data(NumClasses + 2)]

\* innerProxy.hasOwnProperty(k).  The read of hasOwnProperty goes through the
\* inner get trap, which finds it on Base.prototype's chain and binds it to
\* the receiver, the inner proxy (to the instance of the first class in the
\* Classes-array variant); the call then asks for an own property of the
\* proxy, which without a getOwnPropertyDescriptor trap is one of its target,
\* the inner self.
InnerHasOwn(v, s, in, k) == IF v = "classes" THEN HasOwn(in[1], k) ELSE HasOwn(s, k)

\* ConjugateBase.has(Inner.prototype, k): class Conjugated declares no
\* instance methods, so only the chain's end, Object.prototype, has members.
InnerProtoHas(k) == ObjectPrototype(k) # Absent

\* ConjugateBase.has(X.prototype, k): X declares no methods.
OtherProtoHas(k) == ObjectPrototype(k) # Absent

\* The has trap of the outer composite.
OuterHas(v, o, s, in, pr, k) ==
    \/ HasOwn(o.self, k)
    \/ HasOwn(o.other, k)
    \/ InnerHasOwn(v, s, in, k)
    \/ InnerProtoHas(k)
    \/ OtherProtoHas(k)

\* ConjugateBase.get(innerProxy, k, receiver): the inner get trap resolves k
\* in the inner composite's order.
InnerHit(v, s, in, pr, k) ==
    [ProxyGet(v, s, in, pr, k) EXCEPT !.found = TRUE, !.src = InnerRef]

\* A hit on the chain of Inner.prototype or of X.prototype; the Classes-array
\* variant binds it to the instance of that class.
OuterProtoHit(v, ref, k, instance) ==
    [Hit(ref, ObjectPrototype(k), IF v = "classes" THEN instance ELSE ProxyRef)
        EXCEPT !.src = ref]

\* The get trap of the outer composite: the outer self, the mixin instance,
\* the base instance, the base prototype, the mixin prototype.
OuterGet(v, o, s, in, pr, k) ==
    LET innerOwns == InnerHasOwn(v, s, in, k)
        otherOwns == HasOwn(o.other, k)
        innerFirst == o.pos = 2
    IN  IF HasOwn(o.self, k) THEN Hit(OuterSelfRef, OwnGet(o.self, k), ProxyRef)
        ELSE IF innerFirst /\ innerOwns THEN InnerHit(v, s, in, pr, k)
        ELSE IF otherOwns THEN Hit(OtherRef, OwnGet(o.other, k), ProxyRef)
        ELSE IF innerOwns THEN InnerHit(v, s, in, pr, k)
        ELSE IF o.pos = 1 /\ InnerProtoHas(k) THEN OuterProtoHit(v, InnerProtoRef, k, InnerRef)
        ELSE IF OtherProtoHas(k) THEN OuterProtoHit(v, OtherProtoRef, k, OtherRef)
        ELSE IF InnerProtoHas(k) THEN OuterProtoHit(v, InnerProtoRef, k, InnerRef)
        ELSE Miss

\* The ownKeys trap of the outer composite: the outer self, the mixin
\* instance, the base instance.  ConjugateBase.ownKeys(innerProxy) is
\* Reflect.ownKeys of a proxy, the result of the inner ownKeys trap.
OuterOwnKeys(v, o, sk, in, pr) ==
    LET innerKeys == ProxyOwnKeys(v, sk, in, pr)
        otherKeys == InstanceOwnKeys(o.other)
        mixinKeys == IF o.pos = 2 THEN innerKeys ELSE otherKeys
        baseKeys == IF o.pos = 2 THEN otherKeys ELSE innerKeys
    IN  AddAll(AddAll(AddAll(<<>>, InstanceOwnKeys(o.self)), mixinKeys), baseKeys)

\* const Outer = C(Inner, X) or C(X, Inner), with Inner = C(Base, ...Mixins).
InitNested ==
    /\ variant \in Variants
    /\ phase = "declared"
    /\ fields \in [Classes -> SUBSET FieldKeys]
    /\ subFields = EmptyObject
    /\ subProto = EmptyObject
    /\ proto = [c \in Classes |-> [k \in Keys |-> IF k = "who" THEN Method(c) ELSE Absent]]
    /\ self = EmptyObject
    /\ selfKeys = <<>>
    /\ inst = [c \in Classes |-> EmptyObject]
    /\ ctor = NoCtor
    /\ outer \in {[NoOuter EXCEPT !.pos = p] : p \in {1, 2}}
    /\ twin = NoTwin
    /\ binds = 0
    /\ op = NoOp("declare")

\* new Outer(argsInner, argsX): the outer constructor constructs the inner
\* composite (one instance per composed class, the inner proxy returned) and
\* X, and returns the outer proxy.
ConstructOuter ==
    /\ phase = "declared"
    /\ outer.pos # 0
    /\ phase' = "live"
    /\ inst' = [c \in Classes |->
                  [k \in Keys |-> IF k \in fields[c] THEN FieldInit(c) ELSE Absent]]
    /\ self' = EmptyObject
    /\ selfKeys' = <<>>
    /\ outer' = [outer EXCEPT !.self = EmptyObject, !.other = OtherInstance]
    /\ op' = NoOp("construct")
    /\ UNCHANGED <<declared, proto, twin, binds>>

\* k in outerInstance.
HasOuter(k) ==
    /\ phase = "live"
    /\ outer.pos # 0
    /\ op' = [NoOp("hasOuter") EXCEPT !.key = k,
                  !.found = OuterHas(variant, outer, self, inst, proto, k)]
    /\ UNCHANGED <<declared, phase, proto, self, selfKeys, inst, outer, twin, binds>>

\* outerInstance.k
GetOuter(k) ==
    /\ phase = "live"
    /\ outer.pos # 0
    /\ LET r == OuterGet(variant, outer, self, inst, proto, k) IN
       op' = OpRecord("getOuter", k, Undefined, r.threw, r)
    /\ UNCHANGED <<declared, phase, proto, self, selfKeys, inst, outer, twin, binds>>

\* Reflect.ownKeys(outerInstance)
OwnKeysOuter ==
    /\ phase = "live"
    /\ outer.pos # 0
    /\ op' = [NoOp("ownKeysOuter") EXCEPT
                  !.keys = OuterOwnKeys(variant, outer, selfKeys, inst, proto)]
    /\ UNCHANGED <<declared, phase, proto, self, selfKeys, inst, outer, twin, binds>>

NextNested ==
    \/ ConstructOuter
    \/ \E c \in Classes : ProtoDefine(c, "who")
    \/ \E c \in Classes : ProtoDelete(c, "who")
    \/ \E k \in TrapKeys : HasOuter(k)
    \/ \E k \in TrapKeys : GetOuter(k)
    \/ OwnKeysOuter

SpecNested == InitNested /\ [][NextNested]_vars

\* ------------------------------------------------------------------ two composites of one class

\* The two composites built from the one composite class.
Twins == {1, 2}

\* An allocation that hands back the object made earlier for the same class.
AllocateCached(heap, cls) ==
    IF \E i \in DOMAIN heap : heap[i].cls = cls
    THEN CHOOSE i \in DOMAIN heap : heap[i].cls = cls
    ELSE Len(heap) + 1

\* super() and Reflect.construct(ctor, args) make a new object on every call:
\* the place in the heap it gets.  Class 0 is the composite class itself.
Allocate(heap, cls) == Len(heap) + 1

\* The heap with object id made or re-made as an object of class cls holding
\* store.
Stored(heap, id, cls, store) ==
    [i \in (DOMAIN heap) \cup {id} |->
        IF i = id THEN [cls |-> cls, store |-> store] ELSE heap[i]]

\* The heap after constructing the instances of classes c, .., NumClasses with
\* their field initialisers run, and the places they got.
RECURSIVE ConstructComponents(_, _, _, _)
ConstructComponents(heap, ids, c, fs) ==
    IF c > NumClasses THEN [heap |-> heap, ids |-> ids]
    ELSE LET id == Allocate(heap, c)
             store == [k \in Keys |-> IF k \in fs[c] THEN FieldInit(c) ELSE Absent]
         IN  ConstructComponents(Stored(heap, id, c, store), Append(ids, id), c + 1, fs)

\* The storage composite t's closure holds: self and the instances.
TwinSelf(tw, t) == tw.heap[tw.comp[t].self].store
TwinInst(tw, t) == [c \in Classes |-> tw.heap[tw.comp[t].inst[c]].store]

\* The heap after a trap of composite t left self as s and the instances as in.
WrittenBack(tw, t, s, in) ==
    [i \in DOMAIN tw.heap |->
        IF i = tw.comp[t].self THEN [tw.heap[i] EXCEPT !.store = s]
        ELSE IF \E c \in Classes : tw.comp[t].inst[c] = i
             THEN [tw.heap[i] EXCEPT
                     !.store = in[CHOOSE c \in Classes : tw.comp[t].inst[c] = i]]
             ELSE tw.heap[i]]

\* const A = C(Base, ...Mixins), with instance fields declared by the classes.
InitTwin ==
    /\ variant \in Variants
    /\ phase = "declared"
    /\ fields \in [Classes -> SUBSET FieldKeys]
    /\ subFields = EmptyObject
    /\ subProto = EmptyObject
    /\ proto = [c \in Classes |-> [k \in Keys |-> IF k = "who" THEN Method(c) ELSE Absent]]
    /\ self = EmptyObject
    /\ selfKeys = <<>>
    /\ inst = [c \in Classes |-> EmptyObject]
    /\ ctor = NoCtor
    /\ outer = NoOuter
    /\ twin = NoTwin
    /\ binds = 0
    /\ op = NoOp("declare")

\* new A(argsBase, ...argsMixins), for the next of the two composites: super()
\* makes self, the constructor makes one instance per class.
ConstructTwin ==
    /\ Len(twin.comp) < 2
    /\ LET id == Allocate(twin.heap, 0)
           h == IF id \in DOMAIN twin.heap THEN twin.heap
                ELSE Stored(twin.heap, id, 0, EmptyObject)
           r == ConstructComponents(h, <<>>, 1, fields)
       IN  twin' = [heap |-> r.heap,
                    comp |-> Append(twin.comp, [self |-> id, inst |-> r.ids]),
                    last |-> Len(twin.comp) + 1]
    /\ op' = NoOp("construct")
    /\ UNCHANGED <<declared, phase, proto, self, selfKeys, inst, outer, binds>>

\* a.k = v or b.k = v: a write through composite t.
SetTwin(t, k, v) ==
    /\ t \in DOMAIN twin.comp
    /\ LET r == ProxySet(variant, TwinSelf(twin, t), TwinInst(twin, t), proto, k, v, ProxyRef) IN
       /\ twin' = [twin EXCEPT !.heap = WrittenBack(twin, t, r.self, r.inst), !.last = t]
       /\ op' = [NoOp("set") EXCEPT !.key = k, !.val = v, !.threw = r.threw,
                                    !.found = r.ok, !.src = r.owner]
    /\ UNCHANGED <<declared, phase, proto, self, selfKeys, inst, outer, binds>>

\* a.k or b.k: a read through composite t.
GetTwin(t, k) ==
    /\ t \in DOMAIN twin.comp
    /\ LET r == ProxyGet(variant, TwinSelf(twin, t), TwinInst(twin, t), proto, k) IN
       op' = OpRecord("get", k, Undefined, r.threw, r)
    /\ twin' = [twin EXCEPT !.last = t]
    /\ UNCHANGED <<declared, phase, proto, self, selfKeys, inst, outer, binds>>

NextTwin ==
    \/ ConstructTwin
    \/ \E t \in Twins, k \in EnumKeys : SetTwin(t, k, Data(NumClasses + t))
    \/ \E t \in Twins, k \in EnumKeys : GetTwin(t, k)

SpecTwin == InitTwin /\ [][NextTwin]_vars

\* ------------------------------------------------------------------ keys that are not strings

\* What a caller writes between the brackets of instance[key]: a string or a
\* number.
StringKey(k) == [type |-> "string", name |-> k, n |-> 0]
NumberKey(n) == [type |-> "number", name |-> "", n |-> n]
RawKeys == {StringKey("who"), StringKey("foo"), NumberKey(1)}

\* ToPropertyKey: the language turns the key expression into a property key
\* before the proxy's [[Has]], [[Get]] or [[Set]] runs, so the trap's prop is
\* the number's canonical string.
ToPropertyKey(raw) == IF raw.type = "string" THEN raw.name ELSE ToString(raw.n)

\* typeof prop, for the prop the trap is handed: a symbol stays a symbol,
\* anything else has become a string.
TypeOfProp(raw) == IF raw.type = "symbol" THEN "symbol" ELSE "string"

\* if (typeof prop !== 'string' && typeof prop !== 'symbol') throw new TypeError(...)
\* at the head of resolveProperty; the inline traps have no such check.
KeyRejected(v, raw) == v # "inline" /\ TypeOfProp(raw) \notin {"string", "symbol"}

\* key in instance
HasRaw(raw) ==
    /\ phase = "live"
    /\ LET k == ToPropertyKey(raw) IN
       op' = IF KeyRejected(variant, raw)
             THEN [NoOp("has") EXCEPT !.threw = TRUE, !.rawType = raw.type]
             ELSE [NoOp("has") EXCEPT !.key = k, !.rawType = raw.type,
                                      !.found = ProxyHas(variant, self, inst, proto, k)]
    /\ UNCHANGED <<declared, phase, proto, self, selfKeys, inst, outer, twin, binds>>

\* instance[key]
GetRaw(raw) ==
    /\ phase = "live"
    /\ LET k == ToPropertyKey(raw)
           r == ProxyGet(variant, self, inst, proto, k)
       IN  op' = IF KeyRejected(variant, raw)
                 THEN [NoOp("get") EXCEPT !.threw = TRUE, !.rawType = raw.type]
                 ELSE [OpRecord("get", k, Undefined, r.threw, r) EXCEPT !.rawType = raw.type]
    /\ UNCHANGED <<declared, phase, proto, self, selfKeys, inst, outer, twin, binds>>

\* instance[key] = v
SetRaw(raw, v) ==
    /\ phase = "live"
    /\ LET k == ToPropertyKey(raw)
           r == IF KeyRejected(variant, raw) THEN SetRejected(self, inst, proto)
                ELSE ProxySet(variant, self, inst, proto, k, v, ProxyRef)
       IN  /\ self' = r.self
           /\ selfKeys' = KeyAdded(selfKeys, k, HasOwn(r.self, k) /\ ~HasOwn(self, k))
           /\ inst' = r.inst
           /\ proto' = r.proto
           /\ op' = [NoOp("set") EXCEPT !.key = k, !.val = v, !.threw = r.threw,
                                        !.found = r.ok, !.src = r.owner,
                                        !.rawType = raw.type]
    /\ UNCHANGED <<declared, phase, outer, twin, binds>>

NextRaw ==
    \/ Construct
    \/ \E raw \in RawKeys : HasRaw(raw)
    \/ \E raw \in RawKeys : GetRaw(raw)
    \/ \E raw \in RawKeys : SetRaw(raw, Data(NumClasses + 1))

SpecRaw == InitTraps /\ [][NextRaw]_vars

\* ------------------------------------------------------------------ the type resolver

\* K extends keyof InstanceType<class c>: the class body declares k, as an
\* instance field or as a method.
KeyOf(fs, pr, c, k) == k \in fs[c] \/ HasOwn(pr[c], k)

\* IMix<A, B>[K]: A's declaration when K is a key of A, else B's; 0 when
\* neither has it.  a and b are the classes supplying A's and B's declaration.
IMix(a, b) == IF a # 0 THEN a ELSE b

\* IResolve<[class c, ...rest]>[k]: IMix<Base, IResolve<rest>>, and Base
\* alone for the last class: the class whose declaration types member k.
RECURSIVE IResolve(_, _, _, _)
IResolve(fs, pr, c, k) ==
    LET base == IF KeyOf(fs, pr, c, k) THEN c ELSE 0 IN
    IF c = NumClasses THEN base
    ELSE IMix(base, IResolve(fs, pr, c + 1, k))

\* ------------------------------------------------------------------ host methods

\* class Base extends EventTarget { baseMethod() { ... } }, supplied as the
\* base or as a mixin: class h's prototype chain has addEventListener, held
\* here as a member of class h's prototype.
InitHost ==
    /\ variant \in Variants
    /\ phase = "declared"
    /\ fields \in [Classes -> SUBSET FieldKeys]
    /\ subFields = EmptyObject
    /\ subProto = EmptyObject
    /\ \E h \in Classes :
          proto = [c \in Classes |->
                     [k \in Keys |-> IF k = "who" THEN Method(c)
                                      ELSE IF k \in HostKeys /\ c = h THEN HostFn(h)
                                      ELSE Absent]]
    /\ self = EmptyObject
    /\ selfKeys = <<>>
    /\ inst = [c \in Classes |-> EmptyObject]
    /\ ctor = NoCtor
    /\ outer = NoOuter
    /\ twin = NoTwin
    /\ binds = 0
    /\ op = NoOp("declare")

\* The receiver check of a host method: this must be the instance of the
\* class that extends the host class; a proxy around another object is not.
IllegalInvocation(value, this) == value.kind = "boundHost" /\ this # InstRef(value.id)

\* instance.k(...): the read through the get trap, then the call of what it
\* returned.
Invoke(k) ==
    /\ phase = "live"
    /\ LET r == ProxyGet(variant, self, inst, proto, k)
           rec == OpRecord("call", k, Undefined, FALSE, r)
       IN  op' = [rec EXCEPT !.threw = ~Callable(r.value) \/ IllegalInvocation(r.value, r.thisArg)]
    /\ UNCHANGED <<declared, phase, proto, self, selfKeys, inst, outer, twin, binds>>

NextHost ==
    \/ Construct
    \/ \E c \in Classes : ProtoDelete(c, "who")
    \/ \E k \in HostKeys \cup {"who"} : Invoke(k)

SpecHost == InitHost /\ [][NextHost]_vars

\* ------------------------------------------------------------------ what a method sees

\* The value the caller writes through the composite before a method looks.
SeenWrite == Data(NumClasses + 1)

\* instance.who() for a who() on a prototype whose body is  return this.k :
\* the read through the get trap, then the body's read of this.k with the this
\* the returned function was bound to.  The record keeps the value the body
\* saw and where it came from.
Observe(k) ==
    /\ phase = "live"
    /\ LET r == ProxyGet(variant, self, inst, proto, "who") IN
       /\ r.src.at = "prototype"
       /\ LET w == ThisGet(variant, CallThis(r), self, inst, proto, k) IN
          op' = [OpRecord("observe", k, Undefined, FALSE, r) EXCEPT
                    !.thisArg = CallThis(r), !.nested = w.src, !.value = w.value]
    /\ UNCHANGED <<declared, phase, proto, self, selfKeys, inst, outer, twin, binds>>

\* Classes that declare who() on their prototypes and possibly the data field
\* foo; where is a name no class declares.
InitSeen ==
    /\ variant \in Variants
    /\ phase = "declared"
    /\ fields \in [Classes -> SUBSET {"foo"}]
    /\ subFields = EmptyObject
    /\ subProto = EmptyObject
    /\ proto = [c \in Classes |-> [k \in Keys |-> IF k = "who" THEN Method(c) ELSE Absent]]
    /\ self = EmptyObject
    /\ selfKeys = <<>>
    /\ inst = [c \in Classes |-> EmptyObject]
    /\ ctor = NoCtor
    /\ outer = NoOuter
    /\ twin = NoTwin
    /\ binds = 0
    /\ op = NoOp("declare")

NextSeen ==
    \/ Construct
    \/ \E c \in Classes : ProtoDelete(c, "who")
    \/ \E k \in {"foo", "where"} : Set(k, SeenWrite)
    \/ \E k \in {"foo", "where"} : Get(k)
    \/ \E k \in {"foo", "where"} : Observe(k)

SpecSeen == InitSeen /\ [][NextSeen]_vars

\* ------------------------------------------------------------------ repeated reads

\* A bounded that wraps whatever it is given in a new object.
BindSerialAlways(value, made) == made + 1

\* value.bind(instance) makes a new function object on every call: the one
\* made after `made` others.  Anything but a function is handed back as it is
\* (serial 0).
BindSerial(value, made) == IF Callable(value) THEN made + 1 ELSE 0

\* instance.k, as Get, with the function object the read hands back told
\* apart from those of earlier reads.
GetBound(k) ==
    /\ phase = "live"
    /\ LET r == ProxyGet(variant, self, inst, proto, k)
           n == BindSerial(r.value, binds)
       IN  /\ n <= MaxBinds
           /\ binds' = IF n = 0 THEN binds ELSE n
           /\ op' = [OpRecord("get", k, Undefined, r.threw, r) EXCEPT !.serial = n]
    /\ UNCHANGED <<declared, phase, proto, self, selfKeys, inst, outer, twin>>

\* Classes that declare who() and possibly the field who; no subclass.
InitReads ==
    /\ variant \in Variants
    /\ phase = "declared"
    /\ fields \in [Classes -> SUBSET FieldKeys]
    /\ subFields = EmptyObject
    /\ subProto = EmptyObject
    /\ proto = [c \in Classes |-> [k \in Keys |-> IF k = "who" THEN Method(c) ELSE Absent]]
    /\ self = EmptyObject
    /\ selfKeys = <<>>
    /\ inst = [c \in Classes |-> EmptyObject]
    /\ ctor = NoCtor
    /\ outer = NoOuter
    /\ twin = NoTwin
    /\ binds = 0
    /\ op = NoOp("declare")

NextReads ==
    \/ Construct
    \/ \E c \in Classes : ProtoDelete(c, "who")
    \/ \E k \in TrapKeys : Has(k)
    \/ \E k \in TrapKeys : GetBound(k)
    \/ \E k \in FieldKeys : Set(k, Data(NumClasses + 1))
    \/ OwnKeys

SpecReads == InitReads /\ [][NextReads]_vars

\* ------------------------------------------------------------------ claims on the four traps

\* C11: every member the subclass of a composite class declares, an own field
\* or a method on the subclass's prototype, is what a read of its name through
\* the subclass instance returns, whatever the composed classes hold under
\* that name.
C11_SubclassMembersTakePrecedence ==
    (op.kind = "get" /\ (subFields[op.key] # Absent \/ subProto[op.key] # Absent)) =>
        /\ op.found
        /\ IF self[op.key] # Absent
           THEN op.src = SelfRef /\ op.value = AsReturned(self[op.key])
           ELSE op.src = SubProtoRef /\ op.value = AsReturned(subProto[op.key])

\* The key is an own member of some storage or of some composed class's
\* prototype.
OwnMemberSomewhere(k) ==
    \/ self[k] # Absent
    \/ \E c \in Classes : inst[c][k] # Absent
    \/ \E c \in Classes : proto[c][k] # Absent

\* C14 as stated: the existence check returns true if and only if the key is
\* an own member of the composite's own storage, of a component instance or
\* of a composed class's prototype.
C14_Original ==
    op.kind = "has" => (op.found <=> OwnMemberSomewhere(op.key))

\* C14 (amended): the existence check returns true if and only if the key is
\* an own member of the composite's own storage or of a component instance,
\* or a member, own or inherited along its prototype chain, of the base
\* class's or a mixin class's prototype; it returns false for every other key.
C14_HasIffOwnedOrInPrototypeChain ==
    op.kind = "has" => (op.found <=> Holders(op.key) # {})

\* who() is left on the last mixin's prototype only, no storage owns who, and
\* the existence check answered true.
C14_Witness ==
    /\ op.kind = "has"
    /\ op.key = "who"
    /\ ~OwnedByInstance("who")
    /\ \A c \in Classes : proto[c]["who"] # Absent <=> c = NumClasses
    /\ op.found

\* C17: a read through the composite of a key that no source has raises no
\* error and returns undefined, also after the member was deleted from the
\* prototypes that had it.
C17_AbsentReadYieldsUndefined ==
    (op.kind = "get" /\ Holders(op.key) = {}) =>
        /\ ~op.threw
        /\ ~op.found
        /\ op.value = Undefined

\* who() was deleted from every prototype that declared it, no storage owns
\* who, and the read returned undefined without an error.
C17_Witness ==
    /\ op.kind = "get"
    /\ op.key = "who"
    /\ ~OwnedByInstance("who")
    /\ \A c \in Classes : proto[c]["who"] = Absent
    /\ ~op.threw
    /\ op.value = Undefined

\* The operations performed through the composite.
TrapKinds == {"has", "get", "set", "ownKeys"}

\* C20: no has, get, set or ownKeys step through the composite changes the
\* prototype of a composed class; a write of a key that only prototypes have
\* leaves their members as they were.
C20_TrapsLeavePrototypesUnchanged ==
    [][op'.kind \in TrapKinds => proto' = proto]_vars

\* who was written while only the prototypes had it: every prototype still
\* has its own who() and the value sits on the composite's own storage.
C20_Witness ==
    /\ op.kind = "set"
    /\ ~op.threw
    /\ op.src = NoRef
    /\ \A c \in Classes : proto[c][op.key] = Method(c)
    /\ \A c \in Classes : inst[c][op.key] = Absent
    /\ self[op.key] = op.val

\* ------------------------------------------------------------------ claims on key enumeration

\* The keys some storage owns: the composite's own, a mixin instance's or the
\* base instance's.
StorageKeys == {k \in Keys : OwnedByInstance(k)}

\* The place in the order own storage, mixin instances last to first, base
\* instance of the first storage that owns k.
StorageRank(k) ==
    LET at == {i \in 1..(NumClasses + 1) : SourceHolds(ResolutionOrder[i], k)}
    IN  CHOOSE i \in at : \A j \in at : i <= j

\* C13: key enumeration on a composite returns exactly the keys owned by the
\* composite's own storage, a mixin instance or the base instance, each once;
\* a key only prototypes have is not returned; keys come in the order of their
\* first owner: own storage, mixin instances last to first, base instance.
C13_OwnKeysIsOrderedUnion ==
    op.kind = "ownKeys" =>
        /\ {op.keys[i] : i \in DOMAIN op.keys} = StorageKeys
        /\ \A i, j \in DOMAIN op.keys : i # j => op.keys[i] # op.keys[j]
        /\ \A k \in Keys :
              (~OwnedByInstance(k) /\ \E c \in Classes : ProtoHas(proto, c, k)) =>
                  \A i \in DOMAIN op.keys : op.keys[i] # k
        /\ \A i, j \in DOMAIN op.keys :
              i < j => StorageRank(op.keys[i]) <= StorageRank(op.keys[j])

\* The base declares who then foo, the last mixin declares foo, nothing else
\* owns a field: foo is listed once, before who, and toString, which only the
\* prototype chains have, is not listed.
C13_Witness ==
    /\ op.kind = "ownKeys"
    /\ self = EmptyObject
    /\ fields[1] = {"who", "foo"}
    /\ fields[NumClasses] = {"foo"}
    /\ \A c \in Classes : (c # 1 /\ c # NumClasses) => fields[c] = {}
    /\ op.keys = <<"foo", "who">>

\* ------------------------------------------------------------------ claims on a composite as a component

\* C12: with a composite class supplied as the base or as a mixin of a
\* further Conjugate call, every member the inner composite exposes through
\* has and get (the fields of its component instances, the methods of its
\* components' prototypes) is found by has and by get on the outer composite.
C12_InnerMembersFoundOnOuter ==
    /\ (op.kind = "hasOuter" /\ ProxyHas(variant, self, inst, proto, op.key)) => op.found
    /\ (op.kind = "getOuter" /\ ProxyGet(variant, self, inst, proto, op.key).found) =>
          /\ op.found
          /\ op.value = ProxyGet(variant, self, inst, proto, op.key).value

\* ------------------------------------------------------------------ claims on method calls

\* C15: a function-valued member found as an own field of component instance
\* A and called through the composite runs with A as this: the body's write
\* of this.foo lands in A's own storage, not in the composite's own storage,
\* and its read of this.foo is A's.
C15_InstanceFunctionRunsOnOwner ==
    (op.kind = "call" /\ ~op.threw /\ op.src.at = "instance") =>
        /\ op.thisArg = op.src
        /\ inst[op.src.idx]["foo"] = op.val
        /\ self["foo"] = Absent
        /\ op.value = inst[op.src.idx]["foo"]

\* C16: a method found on the prototype of a composed class and called
\* through the composite runs with the composite as this, so the this.where()
\* inside who() resolves in the composite's resolution order (with who()
\* deleted from the first class, the second class's who() runs the first
\* class's where()).
C16_PrototypeMethodRunsOnComposite ==
    (op.kind = "call" /\ ~op.threw /\ op.key = "who" /\ op.src.at = "prototype") =>
        /\ op.thisArg = ProxyRef
        /\ op.nested = ReadNow("where").src

\* ------------------------------------------------------------------ claims on construction

\* The constructor calls made so far were made in supplied order, base first,
\* and call i handed class i the caller's tuple i as it was passed.
CalledInOrder ==
    \A i \in DOMAIN ctor.log :
        /\ ctor.log[i].cls = i
        /\ ctor.log[i].args = ctor.args[i]

\* C18: constructing a composite with the tuples (a1, .., an) constructs each
\* composed class exactly once, in supplied order, and class i receives
\* exactly tuple i: no tuple is flattened or handed to another class.
C18_EachClassGetsItsTuple ==
    /\ phase # "declared" => CalledInOrder
    /\ phase = "live" =>
          /\ Len(ctor.log) = NumClasses
          /\ \A c \in Classes :
                inst[c]["foo"] = IF Len(ctor.args[c]) >= 1 THEN Arg(c, 1) ELSE Undefined

\* The base was constructed with the empty tuple and the first mixin with a
\* tuple of two arguments, and the mixin's field holds its own first argument.
C18_Witness ==
    /\ phase = "live"
    /\ ctor.args[1] = <<>>
    /\ Len(ctor.args[2]) = 2
    /\ ctor.log[2] = [cls |-> 2, args |-> <<Arg(2, 1), Arg(2, 2)>>]
    /\ inst[1]["foo"] = Undefined
    /\ inst[2]["foo"] = Arg(2, 1)

\* The first class in supplied order whose constructor throws.
FirstThrower == CHOOSE c \in ctor.throwers : \A d \in ctor.throwers : c <= d

\* C19: when the constructor of component k throws, the composite constructor
\* leaves with that same error, returns no composite, and constructs no
\* component listed after k; when none throws, every component is constructed
\* and the composite with its traps is returned.
C19_ConstructionAllOrNothing ==
    phase # "declared" =>
        IF ctor.throwers = {}
        THEN /\ phase = "live"
             /\ ~op.threw \/ op.kind # "construct"
             /\ Len(ctor.log) = NumClasses
        ELSE /\ phase = "failed"
             /\ op.kind = "construct"
             /\ op.threw
             /\ op.value = ErrorOf(FirstThrower)
             /\ ctor.error = FirstThrower
             /\ Len(ctor.log) = FirstThrower
             /\ \A i \in DOMAIN ctor.log : ctor.log[i].cls <= FirstThrower
             /\ self = EmptyObject /\ \A c \in Classes : inst[c] = EmptyObject

\* The constructor of the first mixin threw after the base was constructed:
\* the construction failed with the mixin's error and the last mixin's
\* constructor was never called.
C19_Witness ==
    /\ phase = "failed"
    /\ ctor.throwers = {2, NumClasses}
    /\ op.value = ErrorOf(2)
    /\ Len(ctor.log) = 2

\* ------------------------------------------------------------------ claims on two composites

\* The read of k through composite t in twin state tw.
TwinRead(tw, t, k) == ProxyGet(variant, TwinSelf(tw, t), TwinInst(tw, t), proto, k)

\* C21: two composites built from one composite class share no component
\* instance: a write through one leaves every read of every key through the
\* other as it was, and no write through a composite puts a field of one
\* component instance into the storage of another component instance.
C21_CompositesShareNoStorage ==
    [][(op'.kind = "set" /\ Len(twin.comp) = 2) =>
          LET t == twin'.last
              u == 3 - t
          IN  /\ twin'.comp = twin.comp
              /\ \A k \in Keys : TwinRead(twin', u, k) = TwinRead(twin, u, k)
              /\ TwinSelf(twin', u) = TwinSelf(twin, u)
              /\ \A c \in Classes : twin.comp[t].inst[c] # twin.comp[u].inst[c]
              /\ \A w \in Twins : TwinInst(twin', w) = TwinInst(twin, w)
      ]_vars

\* The last mixin declares the field who; a write of who through the second
\* composite has happened and the first still reads the initialiser's value.
C21_Witness ==
    /\ Len(twin.comp) = 2
    /\ op.kind = "get"
    /\ twin.last = 1
    /\ op.key = "who"
    /\ op.src = InstRef(NumClasses)
    /\ op.value = FieldInit(NumClasses)
    /\ TwinSelf(twin, 2)["who"] = Data(NumClasses + 2)
    /\ TwinSelf(twin, 1)["who"] = Absent

\* ------------------------------------------------------------------ claims on malformed requests

\* C22: a has, get or set request whose key is neither a string nor a symbol
\* is rejected with an error before any source is consulted and without a
\* change to any storage; the key is not coerced.
C22_NonStringKeyRejected ==
    [][(op'.kind \in {"has", "get", "set"} /\ op'.rawType \notin {"string", "symbol"}) =>
          /\ op'.threw
          /\ ~op'.found /\ op'.src = NoRef
          /\ self' = self /\ inst' = inst /\ proto' = proto
      ]_vars

\* ------------------------------------------------------------------ claims on the type resolver

\* C23: for every member name visible on a composite when it is constructed,
\* the class whose declaration the type resolver selects for the name is the
\* class whose instance or prototype supplies the value read through get.
C23_TypeResolverMatchesRuntime ==
    (phase = "live" /\ op.kind = "construct") =>
        \A k \in Keys :
            LET typed == IResolve(fields, proto, 1, k)
                r == ProxyGet(variant, self, inst, proto, k)
            IN  (typed # 0 /\ ~HasOwn(self, k)) =>
                    /\ r.src.at \in {"instance", "prototype"}
                    /\ r.src.idx = typed

\* ------------------------------------------------------------------ claims on host methods

\* C24: a prototype method that only works on a genuine instance of the class
\* that declares it is called through the composite without an illegal
\* receiver error, the declaring class being the base or a mixin: it runs
\* against that class's component instance.
C24_HostMethodRunsOnItsInstance ==
    (op.kind = "call" /\ op.key \in HostKeys) =>
        /\ ~op.threw
        /\ op.src.at = "prototype"
        /\ op.thisArg = InstRef(op.src.idx)

\* ------------------------------------------------------------------ claims on what a method sees

\* C25: after any writes and calls through a composite, the value a composed
\* class's prototype method sees for this.k when called through the composite
\* is the value a direct read of k through the composite returns, for every k.
C25_MethodSeesWhatReadsReturn ==
    op.kind = "observe" =>
        op.value = ProxyGet(variant, self, inst, proto, op.key).value

\* ------------------------------------------------------------------ claims on rejected writes

\* C26: in the variants built on resolveProperty a write of undefined through
\* the composite is rejected with a TypeError before any source is consulted
\* and leaves the composite's own storage and every component instance as
\* they were; every write of another value returns success.
C26_UndefinedWriteRejected ==
    [][(op'.kind = "set" /\ variant # "inline") =>
          IF op'.val = Undefined
          THEN /\ op'.threw
               /\ op'.src = NoRef
               /\ self' = self /\ inst' = inst
          ELSE ~op'.threw /\ op'.found
      ]_vars

\* A write of undefined to a field that a mixin instance owns was rejected,
\* and the instance still holds the initialiser's value.
C26_Witness ==
    /\ op.kind = "set"
    /\ variant = "resolve"
    /\ op.val = Undefined
    /\ op.threw
    /\ inst[NumClasses][op.key] = FieldInit(NumClasses)
    /\ self[op.key] = Absent

\* ------------------------------------------------------------------ claims on agreement of the traps

\* C27: has and get agree in every reachable state: for every key, has is
\* true exactly when get finds a source, both stop at the same source, and
\* when has is false get returns undefined.
C27_HasAndGetAgree ==
    phase = "live" =>
        /\ \A k \in Keys :
              LET h == ProxyHas(variant, self, inst, proto, k)
                  g == ProxyGet(variant, self, inst, proto, k)
              IN  /\ h = g.found
                  /\ h = (HasSource(self, inst, proto, k) # NoRef)
                  /\ g.src = HasSource(self, inst, proto, k)
                  /\ ~h => g.value = Undefined
        /\ op.kind = "has" => op.found = ProxyGet(variant, self, inst, proto, op.key).found
        /\ op.kind = "get" => op.found = ProxyHas(variant, self, inst, proto, op.key)

\* has answered true for a member that only the prototype chain supplies,
\* after who() was deleted from the base's prototype.
C27_Witness ==
    /\ op.kind = "has"
    /\ op.key = "toString"
    /\ op.found
    /\ proto[1]["who"] = Absent
    /\ ProxyGet(variant, self, inst, proto, "toString").src = ProtoRef(1)
    /\ ~ProxyHas(variant, self, inst, proto, "foo")


\* The first storage of the inner composite that owns k, in the order its
\* ownKeys trap enumerates.
InnerEnumerator(k) ==
    IF HasOwn(self, k) THEN SelfRef
    ELSE InstRef(CHOOSE c \in Classes :
                    /\ HasOwn(inst[c], k)
                    /\ \A d \in Classes : HasOwn(inst[d], k) => d <= c)

\* C28: enumeration and existence agree in every reachable state, a component
\* that is itself a composite included: every key ownKeys returns on a
\* composite satisfies has on that composite and is read through get from
\* the source that enumerated it.
C28_EnumeratedKeysExist ==
    /\ phase = "live" =>
          LET keys == ProxyOwnKeys(variant, selfKeys, inst, proto) IN
          \A i \in DOMAIN keys :
              /\ ProxyHas(variant, self, inst, proto, keys[i])
              /\ ProxyGet(variant, self, inst, proto, keys[i]).src = InnerEnumerator(keys[i])
    /\ op.kind = "ownKeysOuter" =>
          \A i \in DOMAIN op.keys :
              LET k == op.keys[i]
                  g == OuterGet(variant, outer, self, inst, proto, k)
              IN  /\ OuterHas(variant, outer, self, inst, proto, k)
                  /\ g.found
                  /\ g.src = IF HasOwn(outer.other, k) /\ (outer.pos = 1 \/ ~OwnedByInstance(k))
                            THEN OtherRef ELSE InnerRef


\* ------------------------------------------------------------------ claims on repeated reads

\* A has, get or ownKeys step.
ReadStep == op'.kind \in {"has", "get", "ownKeys"}

\* A read step leaves every storage and every prototype as it was.
ReadsChangeNothing ==
    ReadStep => /\ self' = self /\ selfKeys' = selfKeys
                /\ inst' = inst
                /\ proto' = proto

\* A read step that asks what the step before it asked.
RepeatedRead == ReadStep /\ op.kind = op'.kind /\ op.key = op'.key

\* The repeated read resolved as the first did: found or not, at the same
\* source, the same keys, the same datum or the same function bound to the
\* same this.
SameResolution ==
    /\ op'.found = op.found /\ op'.src = op.src
    /\ op'.value = op.value /\ op'.thisArg = op.thisArg
    /\ op'.keys = op.keys /\ op'.threw = op.threw

\* C29 as stated: has, get of a non-accessor member and ownKeys change no
\* storage and no prototype, so repeating one of them gives the same result
\* until a write or a prototype mutation occurs.
C29_Original ==
    [][/\ ReadsChangeNothing
       /\ RepeatedRead => (SameResolution /\ op'.serial = op.serial)
      ]_vars

\* C29 (amended): has, get of a non-accessor member and ownKeys change no
\* storage and no prototype, so repeating one of them resolves in the same
\* way and gives the same result, except that a function-valued member is
\* handed back as a new bound function object on every read (bound to the
\* same function and the same this).
C29_ReadsAreReadOnly ==
    [][/\ ReadsChangeNothing
       /\ RepeatedRead =>
             /\ SameResolution
             /\ IF Callable(op'.value) THEN op'.serial # op.serial
                ELSE op'.serial = op.serial
      ]_vars

\* The method who was read a second time: the read found it where the first
\* did and handed back the second bound function made.
C29_Witness ==
    /\ op.kind = "get"
    /\ op.key = "who"
    /\ op.src = ProtoRef(1)
    /\ op.value = BoundFn(1)
    /\ op.serial = 2
    /\ binds = 2


\* ------------------------------------------------------------------ claims on the variants

\* C30: the variant with inline traps and the resolveProperty variant with
\* separate base and mixins are equivalent: from the same classes and the
\* same construction, after any has, get, set and ownKeys operations and
\* prototype mutations (no written value being undefined), the next
\* operation returns the same result and leaves the same storage in both.
\* Both start from the same storage, so it is enough that in every state
\* either of them reaches each trap of the one does what the trap of the
\* other does.
C30_InlineAndResolveAgree ==
    (phase = "live" /\ variant \in {"inline", "resolve"}) =>
        /\ ProxyOwnKeys("inline", selfKeys, inst, proto)
              = ProxyOwnKeys("resolve", selfKeys, inst, proto)
        /\ \A k \in Keys :
              /\ ProxyHas("inline", self, inst, proto, k)
                    = ProxyHas("resolve", self, inst, proto, k)
              /\ ProxyGet("inline", self, inst, proto, k)
                    = ProxyGet("resolve", self, inst, proto, k)
              /\ \A v \in Written \ {Undefined} :
                    ProxySet("inline", self, inst, proto, k, v, ProxyRef)
                      = ProxySet("resolve", self, inst, proto, k, v, ProxyRef)
        /\ op.kind = "get" =>
              /\ op.value = ProxyGet("inline", self, inst, proto, op.key).value
              /\ op.value = ProxyGet("resolve", self, inst, proto, op.key).value

\* The resolveProperty variant after a write that created who on self and
\* the deletion of who() from Base.prototype, with the base instance and a
\* mixin instance owning who: the read of toString came from Base.prototype.
C30_Witness ==
    /\ variant = "resolve"
    /\ op.kind = "get"
    /\ op.key = "toString"
    /\ op.src = ProtoRef(1)
    /\ self["who"] = Data(NumClasses + 1)
    /\ proto[1]["who"] = Absent
    /\ inst[1]["who"] # Absent /\ inst[NumClasses]["who"] # Absent

====
